---------------------------- MODULE Spec2Model ----------------------------
(***************************************************************************)
(* Model of the notebook src/Examples.ipynb: the numeric kernel            *)
(* predict_over_time, its compiled twin jitted_func, the vectorized        *)
(* fast_predict_over_time (numba guvectorize), and the dask.delayed        *)
(* wrappers built around them, together with the notebook session that     *)
(* binds the names and invokes them.                                       *)
(*                                                                         *)
(* float64 values are modelled in fixed point, as integer multiples of     *)
(* 1/FloatOne: every value the model handles is a small dyadic rational,   *)
(* on which IEEE-754 arithmetic is exact.  int64 values are modelled by    *)
(* their signed value while they are small (the arrays of the session),    *)
(* and by their eight-byte two's-complement pattern where the width        *)
(* matters (SpecTerm, at the end of the module).                           *)
(***************************************************************************)
EXTENDS Integers, Sequences, FiniteSets, TLC

VARIABLES
    names,      \* the kernel namespace: what each function name is bound to
    store,      \* array storage: address -> array (or Free)
    call,       \* the most recent call expression and what it returned
    pending,    \* the dask Delayed object built and not yet triggered
    ran,        \* the kernels the most recent call expression has executed
    x64,        \* SpecTerm: the int64 operand x
    step,       \* SpecTerm: the loop variable t
    term        \* SpecTerm: the int64 value of t * x ** 2

vars == <<names, store, call, pending, ran, x64, step, term>>

---------------------------------------------------------------------------
(* Bounds and constants *)

\* range(15), np.zeros((.., 15))
Steps == 15
\* longest input array of the model (the notebook's n is 25000)
MaxN == 2
\* a placeholder width other than 15
AltCols == 2

\* fixed-point denominator of the float64 model: 1.0 is FloatOne units
FloatOne == 2 * 2

\* element values of the input arrays
XVals == {2, 3}
YVals == {FloatOne, -(FloatOne \div 2)}
ZVals == {FloatOne \div 2}

---------------------------------------------------------------------------
(* float64 and int -> float64 arithmetic *)

FromInt(i) == i * FloatOne
FAdd(a, b) == a + b
FSub(a, b) == a - b
FMul(a, b) == (a * b) \div FloatOne

---------------------------------------------------------------------------
(* Arrays and storage *)

None == "None"
Addr == {"x", "y", "z", "res", "ret"}

Free == [dtype |-> "free", shape |-> <<>>, data |-> <<>>]
Vector(dt, d) == [dtype |-> dt, shape |-> <<Len(d)>>, data |-> d]
\* np.zeros(shape), one- or two-dimensional
Zeros(shape) ==
    [dtype |-> "f8", shape |-> shape,
     data |-> IF Len(shape) = 1
              THEN [t \in 1..shape[1] |-> 0]
              ELSE [i \in 1..shape[1] |-> [t \in 1..shape[2] |-> 0]]]

Seqs(S, k) == UNION {[1..m -> S] : m \in 0..k}
IntArrays == {Vector("i8", d) : d \in Seqs(XVals, MaxN)}
YArrays == {Vector("f8", d) : d \in Seqs(YVals, MaxN)}
ZArrays == {Vector("f8", d) : d \in Seqs(ZVals, MaxN)}
\* the draws (x[i], y[i], z[i]) of the notebook's random generators
Samples == {<<2, FloatOne, FloatOne \div 2>>, <<3, -(FloatOne \div 2), FloatOne \div 2>>}
ResShapes == {<<Steps>>} \cup {<<r, c>> : r \in 0..MaxN, c \in {AltCols, Steps}}

\* numpy's broadcast of two lengths
Broadcast(m, k) ==
    IF m.ok /\ k.ok /\ (m.len = k.len \/ k.len = 1) THEN m
    ELSE IF m.ok /\ k.ok /\ m.len = 1 THEN k
    ELSE [ok |-> FALSE, len |-> 0]
Length(a) == [ok |-> TRUE, len |-> a.shape[1]]
\* element i of a one-dimensional array broadcast to a longer one
At(a, i) == IF a.shape[1] = 1 THEN a.data[1] ELSE a.data[i]

---------------------------------------------------------------------------
(* predict_over_time / jitted_func *)

\* a defective variant: (t * x) ** 2
IntTermSquaredProduct(t, xv) == (t * xv) * (t * xv)

\* t * x ** 2 on integers
IntTerm(t, xv) == t * (xv * xv)

\* t * x ** 2 + y - 2 * z - 2 * t, on one element
Element(t, xv, yv, zv) ==
    FSub(FSub(FAdd(FromInt(IntTerm(t, xv)), yv), FMul(FromInt(2), zv)), FromInt(2 * t))

\* the right-hand side of out[:, t] = ..., a one-dimensional array or ValueError
Rhs(t, x, y, z) ==
    LET k == Broadcast(Broadcast(Length(x), Length(y)), Length(z))
    IN  IF ~k.ok THEN [ok |-> FALSE, val |-> <<>>]
        ELSE [ok |-> TRUE,
              val |-> [i \in 1..k.len |-> Element(t, At(x, i), At(y, i), At(z, i))]]

\* out[:, t] = col: col is broadcast into the column, or ValueError
SetColumn(out, t, col) ==
    IF Len(col) = out.shape[1] \/ Len(col) = 1
    THEN [ok |-> TRUE,
          val |-> [out EXCEPT !.data =
                     [i \in 1..out.shape[1] |->
                        [out.data[i] EXCEPT ![t + 1] =
                            IF Len(col) = 1 THEN col[1] ELSE col[i]]]]]
    ELSE [ok |-> FALSE, val |-> out]

\* a defective variant: an exception in the loop is swallowed and out returned as it is
RECURSIVE LoopSwallow(_, _, _, _, _, _)
LoopSwallow(out, t, last, x, y, z) ==
    IF t >= last THEN [ok |-> TRUE, val |-> out]
    ELSE LET r == Rhs(t, x, y, z)
             w == IF r.ok THEN SetColumn(out, t, r.val) ELSE [ok |-> FALSE, val |-> out]
         IN  IF ~w.ok THEN [ok |-> TRUE, val |-> out]
             ELSE LoopSwallow(w.val, t + 1, last, x, y, z)

\* for t in range(15): out[:, t] = ...
RECURSIVE Loop(_, _, _, _, _, _)
Loop(out, t, last, x, y, z) ==
    IF t >= last THEN [ok |-> TRUE, val |-> out]
    ELSE LET r == Rhs(t, x, y, z)
             w == IF r.ok THEN SetColumn(out, t, r.val) ELSE [ok |-> FALSE, val |-> out]
         IN  IF ~w.ok THEN [ok |-> FALSE, val |-> out]
             ELSE Loop(w.val, t + 1, last, x, y, z)

\* a defective variant: the two factors swapped
adjSwapped(overlay) == IF overlay THEN FloatOne ELSE (3 * FloatOne) \div 2

\* adj = 1.5 if overlay else 1.0
adj(overlay) == IF overlay THEN (3 * FloatOne) \div 2 ELSE FloatOne

\* adj * out: a new array
Scale(a, out) ==
    [out EXCEPT !.data = [i \in 1..out.shape[1] |->
                            [t \in 1..out.shape[2] |-> FMul(a, out.data[i][t])]]]

\* a defective variant: one column too many
NewOutExtraColumn(rows) == Zeros(<<rows, Steps + 1>>)

\* out = np.zeros((x.shape[0], 15))
NewOut(rows) == Zeros(<<rows, Steps>>)

\* The call predict_over_time(x, y, z, overlay) on the arrays at the addresses
\* x, y, z of the store s: the store it leaves and what it returns.  The
\* local out is dropped at the return; the product adj * out is a new
\* array, at "ret".  An exception leaves nothing behind.
predict_over_time(s, x, y, z, overlay) ==
    LET l == Loop(NewOut(s[x].shape[1]), 0, Steps, s[x], s[y], s[z])
    IN  IF l.ok
        THEN [store  |-> [s EXCEPT !["ret"] = Scale(adj(overlay), l.val)],
              status |-> "ok", ret |-> "ret"]
        ELSE [store  |-> [s EXCEPT !["ret"] = Free],
              status |-> "ValueError", ret |-> None]

\* @jit compiles the same body
jitted_func(s, x, y, z, overlay) == predict_over_time(s, x, y, z, overlay)

---------------------------------------------------------------------------
(* fast_predict_over_time: @guvectorize '(), (), (), (), (s) -> (s)' *)

\* a defective variant: the term - 2 * t left out
KernelElementNoOffset(a, t, xv, yv, zv) ==
    FMul(a, FSub(FAdd(FromInt(t * (xv * xv)), yv), FMul(FromInt(2), zv)))

\* adj * (t * x ** 2 + y - 2 * z - 2 * t), on the scalars of one loop index
KernelElement(a, t, xv, yv, zv) ==
    FMul(a, FSub(FSub(FAdd(FromInt(IntTerm(t, xv)), yv), FMul(FromInt(2), zv)),
                 FromInt(2 * t)))

\* for t in range(len(out)): out[t] = ...
KernelRow(xv, yv, zv, overlay, width) ==
    [c \in 1..width |-> KernelElement(adj(overlay), c - 1, xv, yv, zv)]

\* the loop dimension of the placeholder: its shape without the core dimension
Leading(a) ==
    IF Len(a.shape) = 1 THEN [ok |-> TRUE, len |-> 1]
    ELSE [ok |-> TRUE, len |-> a.shape[1]]
\* a defective variant: the first dimension of the placeholder taken for the core dimension
WidthFirst(a) == a.shape[1]
\* the core dimension (s) of the placeholder
Width(a) == a.shape[Len(a.shape)]

\* a defective variant: the kernel writes into the placeholder and the placeholder is returned
fast_predict_over_time_inplace(s, x, y, z, overlay, res) ==
    [store  |-> [s EXCEPT ![res] =
                    [dtype |-> "f8", shape |-> <<s[x].shape[1], Steps>>,
                     data  |-> [i \in 1..s[x].shape[1] |-> [c \in 1..Steps |-> 1]]]],
     status |-> "ok", ret |-> res]

\* The generalized ufunc called without an out argument: the loop dimension
\* is the broadcast of the scalar operands' shapes and of the placeholder's
\* leading shape, the output is allocated by the ufunc machinery with the
\* placeholder's core dimension, and the kernel fills one row per loop index.
fast_predict_over_time(s, x, y, z, overlay, res) ==
    LET k2 == Broadcast(Broadcast(Broadcast(Length(s[x]), Length(s[y])), Length(s[z])),
                        Leading(s[res]))
        w  == Width(s[res])
    IN  IF k2.ok
        THEN [store  |-> [s EXCEPT !["ret"] =
                            [dtype |-> "f8", shape |-> <<k2.len, w>>,
                             data  |-> [i \in 1..k2.len |->
                                          KernelRow(At(s[x], i), At(s[y], i), At(s[z], i),
                                                    overlay, w)]]],
              status |-> "ok", ret |-> "ret"]
        ELSE [store  |-> [s EXCEPT !["ret"] = Free],
              status |-> "ValueError", ret |-> None]

---------------------------------------------------------------------------
(* int64 arithmetic on eight-byte two's-complement patterns (little endian) *)

\* 'i8': eight bytes
Int64Bytes == 8
Byte == 2 ^ 8

\* the k low bytes of the natural number n
RECURSIVE Digits(_, _)
Digits(n, k) == IF k = 0 THEN <<>> ELSE <<n % Byte>> \o Digits(n \div Byte, k - 1)

\* carry propagation over column sums, from column j on
RECURSIVE Propagate(_, _, _)
Propagate(cols, j, carry) ==
    IF j > Len(cols) THEN <<>>
    ELSE <<(cols[j] + carry) % Byte>>
            \o Propagate(cols, j + 1, (cols[j] + carry) \div Byte)

Column(a, b, j) ==
    LET S[i \in 0..j] == IF i = 0 THEN 0 ELSE S[i - 1] + a[i] * b[j + 1 - i]
    IN  S[j]

\* the product of two k-byte numbers, reduced modulo 2^(8k)
MulLimbs(a, b) == Propagate([j \in 1..Len(a) |-> Column(a, b, j)], 1, 0)

\* the int64 holding the integer n, |n| < 2^31
Int64FromInt(n) ==
    IF n >= 0 THEN Digits(n, Int64Bytes)
    ELSE [i \in 1..Int64Bytes |-> (Byte - 1) - Digits(-n - 1, Int64Bytes)[i]]

\* a defective variant: the product computed in 32 bits and sign-extended
Mul32(a, b) ==
    LET p == MulLimbs(SubSeq(a, 1, 4), SubSeq(b, 1, 4))
    IN  p \o [i \in 1..4 |-> IF p[4] >= Byte \div 2 THEN Byte - 1 ELSE 0]

\* int64 * int64: the low 64 bits of the product, no overflow check
Mul64(a, b) == MulLimbs(a, b)

\* t * x ** 2 with x an int64 and t a loop index
Term64(t, xv) == Mul64(Int64FromInt(t), Mul64(xv, xv))

---------------------------------------------------------------------------
(* Name bindings, calls and dask.delayed *)

Unbound == [kind |-> "unbound", fn |-> None]
Function(fn) == [kind |-> "function", fn |-> fn]
\* a defective variant: the function handed back unwrapped
delayedIdentity(obj) == obj

\* dask.delayed(obj): a Delayed wrapping the function; a Delayed is returned as it is
delayed(obj) == IF obj.kind = "delayed" THEN obj ELSE [kind |-> "delayed", fn |-> obj.fn]

\* the call fn(x, y, z, overlay[, res]) on the arrays bound to those names
Run(fn, s, overlay) ==
    CASE fn = "predict_over_time" -> predict_over_time(s, "x", "y", "z", overlay)
      [] fn = "jitted_func" -> jitted_func(s, "x", "y", "z", overlay)
      [] fn = "fast_predict_over_time" ->
            fast_predict_over_time(s, "x", "y", "z", overlay, "res")

\* the argument names of a call of fn are bound
ArgsBound(fn, s) ==
    /\ s["x"] /= Free /\ s["y"] /= Free /\ s["z"] /= Free
    /\ fn = "fast_predict_over_time" => s["res"] /= Free

NoPending == [fn |-> None, overlay |-> FALSE]
NoCall == [cell |-> 0, expr |-> None, callee |-> Unbound, overlay |-> FALSE,
           status |-> "none", ret |-> None]

\* a name bound to nothing is a NameError where it is evaluated
Fail(cell, expr, b, s, error) ==
    [store |-> [s EXCEPT !["ret"] = Free],
     call |-> [cell |-> cell, expr |-> expr, callee |-> b, overlay |-> FALSE,
               status |-> error, ret |-> None],
     ran |-> {}, pending |-> NoPending]

\* b(...) for a function: the kernel runs and its value is the call's value
Evaluate(cell, expr, b, s, overlay) ==
    LET r == Run(b.fn, s, overlay)
    IN  [store |-> r.store,
         call |-> [cell |-> cell, expr |-> expr, callee |-> b, overlay |-> overlay,
                   status |-> r.status, ret |-> r.ret],
         ran |-> {b.fn}, pending |-> NoPending]

\* a defective variant: the kernel runs when the Delayed object is built
DeferEager(cell, expr, b, s, overlay) ==
    LET r == Run(b.fn, s, overlay)
    IN  [store |-> r.store,
         call |-> [cell |-> cell, expr |-> expr, callee |-> b, overlay |-> overlay,
                   status |-> "Delayed", ret |-> None],
         ran |-> {b.fn}, pending |-> [fn |-> b.fn, overlay |-> overlay]]

\* b(...) for a Delayed: the call builds a Delayed object holding the function
\* and its arguments; nothing is evaluated
Defer(cell, expr, b, s, overlay) ==
    [store |-> [s EXCEPT !["ret"] = Free],
     call |-> [cell |-> cell, expr |-> expr, callee |-> b, overlay |-> overlay,
               status |-> "Delayed", ret |-> None],
     ran |-> {}, pending |-> [fn |-> b.fn, overlay |-> overlay]]

\* The expression name(x, y, z[, overlay, res]), followed by .compute() when
\* trigger is set, with the name bound to b.  The Delayed object of an
\* expression without .compute() is dropped; .compute() on an ndarray is an
\* AttributeError.
CallObject(cell, expr, b, s, overlay, trigger) ==
    IF b.kind = "unbound" \/ ~ArgsBound(b.fn, s) THEN Fail(cell, expr, b, s, "NameError")
    ELSE IF b.kind = "function"
         THEN LET e == Evaluate(cell, expr, b, s, overlay)
              IN  IF trigger /\ e.call.status = "ok"
                  THEN [Fail(cell, expr, b, s, "AttributeError") EXCEPT !.ran = e.ran]
                  ELSE e
         ELSE LET d == Defer(cell, expr, b, s, overlay)
              IN  IF trigger THEN d ELSE [d EXCEPT !.pending = NoPending]

Apply(r) ==
    /\ store' = r.store
    /\ call' = r.call
    /\ ran' = r.ran
    /\ pending' = r.pending

\* .compute(): the scheduler runs the task and blocks until it has the result
Compute ==
    /\ pending.fn /= None
    /\ LET r == Run(pending.fn, store, pending.overlay)
       IN  /\ store' = r.store
           /\ call' = [call EXCEPT !.status = r.status, !.ret = r.ret]
           /\ ran' = {pending.fn}
           /\ pending' = NoPending
    /\ UNCHANGED <<names, x64, step, term>>

\* the variables of SpecTerm, at rest
TermIdle == /\ x64 = <<>> /\ step = 0 /\ term = <<>>

---------------------------------------------------------------------------
(* Spec: the notebook session, its cells run in any order, any number of times *)

Init ==
    /\ \E n \in 0..MaxN :
          names = [n |-> n, np |-> FALSE, predict_over_time |-> Unbound,
                   jitted_func |-> Unbound, fast_predict_over_time |-> Unbound,
                   fast_jitted_func |-> Unbound]
    /\ store = [a \in Addr |-> Free]
    /\ call = NoCall
    /\ pending = NoPending
    /\ ran = {}
    /\ TermIdle

\* def predict_over_time
Cell2 ==
    /\ pending.fn = None
    /\ names' = [names EXCEPT !.predict_over_time = Function("predict_over_time")]
    /\ UNCHANGED <<store, call, pending, ran, x64, step, term>>

\* import numpy as np; @jit def jitted_func
Cell3 ==
    /\ pending.fn = None
    /\ names' = [names EXCEPT !.np = TRUE, !.jitted_func = Function("jitted_func")]
    /\ UNCHANGED <<store, call, pending, ran, x64, step, term>>

\* n = ...; x = np.random.poisson(..); y, z = np.random.normal(..).T;
\* predict_over_time(x, y, z)
Cell4 ==
    /\ pending.fn = None
    /\ IF names.np
       THEN \E rows \in [1..names.n -> Samples] :
               Apply(CallObject(4, "predict_over_time", names.predict_over_time,
                                [store EXCEPT
                                   !["x"] = Vector("i8", [i \in 1..names.n |-> rows[i][1]]),
                                   !["y"] = Vector("f8", [i \in 1..names.n |-> rows[i][2]]),
                                   !["z"] = Vector("f8", [i \in 1..names.n |-> rows[i][3]])],
                                FALSE, FALSE))
       ELSE Apply(Fail(4, "predict_over_time", names.predict_over_time, store, "NameError"))
    /\ UNCHANGED <<names, x64, step, term>>

\* jitted_func(x, y, z)
Cell5 ==
    /\ pending.fn = None
    /\ Apply(CallObject(5, "jitted_func", names.jitted_func, store, FALSE, FALSE))
    /\ UNCHANGED <<names, x64, step, term>>

\* @guvectorize def fast_predict_over_time
Cell7 ==
    /\ pending.fn = None
    /\ names' = [names EXCEPT !.fast_predict_over_time = Function("fast_predict_over_time")]
    /\ UNCHANGED <<store, call, pending, ran, x64, step, term>>

\* res = np.zeros((n, 15)); fast_predict_over_time(x, y, z, False, res)
Cell8 ==
    /\ pending.fn = None
    /\ IF names.np /\ store["x"] /= Free
       THEN Apply(CallObject(8, "fast_predict_over_time", names.fast_predict_over_time,
                             [store EXCEPT !["res"] = Zeros(<<names.n, Steps>>)],
                             FALSE, FALSE))
       ELSE Apply(Fail(8, "fast_predict_over_time", names.fast_predict_over_time, store,
                       "NameError"))
    /\ UNCHANGED <<names, x64, step, term>>

\* fast_predict_over_time = delayed(fast_predict_over_time);
\* fast_predict_over_time(x, y, z, False, res).compute(), up to the trigger
Cell10 ==
    /\ pending.fn = None
    /\ IF names.fast_predict_over_time.kind = "unbound"
       THEN /\ Apply(Fail(10, "fast_predict_over_time", Unbound, store, "NameError"))
            /\ UNCHANGED names
       ELSE /\ names' = [names EXCEPT !.fast_predict_over_time =
                                          delayed(names.fast_predict_over_time)]
            /\ Apply(CallObject(10, "fast_predict_over_time",
                                delayed(names.fast_predict_over_time), store, FALSE, TRUE))
    /\ UNCHANGED <<x64, step, term>>

\* fast_jitted_func = delayed(jitted_func); fast_jitted_func(x, y, z).compute(),
\* up to the trigger
Cell12 ==
    /\ pending.fn = None
    /\ IF names.jitted_func.kind = "unbound"
       THEN /\ Apply(Fail(12, "fast_jitted_func", Unbound, store, "NameError"))
            /\ UNCHANGED names
       ELSE /\ names' = [names EXCEPT !.fast_jitted_func = delayed(names.jitted_func)]
            /\ Apply(CallObject(12, "fast_jitted_func", delayed(names.jitted_func), store,
                                FALSE, TRUE))
    /\ UNCHANGED <<x64, step, term>>

Next ==
    \/ Cell2 \/ Cell3 \/ Cell4 \/ Cell5 \/ Cell7 \/ Cell8 \/ Cell10 \/ Cell12
    \/ Compute

Spec == Init /\ [][Next]_vars

---------------------------------------------------------------------------
(* SpecCall: each function applied once to arbitrary arguments *)

AllDefined ==
    [n |-> 0, np |-> TRUE, predict_over_time |-> Function("predict_over_time"),
     jitted_func |-> Function("jitted_func"),
     fast_predict_over_time |-> Function("fast_predict_over_time"),
     fast_jitted_func |-> delayed(Function("jitted_func"))]

InitCall ==
    /\ names = AllDefined
    /\ \E xa \in IntArrays, ya \in YArrays, za \in ZArrays, shape \in ResShapes :
          store = [x |-> xa, y |-> ya, z |-> za, res |-> Zeros(shape), ret |-> Free]
    /\ call = NoCall
    /\ pending = NoPending
    /\ ran = {}
    /\ TermIdle

\* fn(x, y, z, overlay[, res])
CallFunction(fn, overlay) ==
    /\ call.status = "none"
    /\ Apply(CallObject(0, fn, Function(fn), store, overlay, FALSE))
    /\ UNCHANGED <<names, x64, step, term>>

\* delayed(fn)(x, y, z, overlay[, res]).compute(), up to the trigger
CallDelayed(name, fn, overlay) ==
    /\ call.status = "none"
    /\ Apply(CallObject(0, name, delayed(Function(fn)), store, overlay, TRUE))
    /\ UNCHANGED <<names, x64, step, term>>

NextCall ==
    \/ \E overlay \in BOOLEAN : CallFunction("predict_over_time", overlay)
    \/ \E overlay \in BOOLEAN : CallFunction("jitted_func", overlay)
    \/ \E overlay \in BOOLEAN : CallFunction("fast_predict_over_time", overlay)
    \/ \E overlay \in BOOLEAN : CallDelayed("fast_predict_over_time", "fast_predict_over_time", overlay)
    \/ \E overlay \in BOOLEAN : CallDelayed("fast_jitted_func", "jitted_func", overlay)
    \/ Compute

SpecCall == InitCall /\ [][NextCall]_vars

---------------------------------------------------------------------------
(* SpecTerm: the integer term t * x ** 2 of the loop, on 64-bit operands *)

\* operands around the points where 14 * x^2 and x^2 leave the int64 range
Int64Inputs ==
    {Int64FromInt(v) : v \in {0, 1, -1, 5, 811672525, -811672525, 811672526,
                              -811672526, 2147483647}}
      \cup {<<51, 243, 4, 181, 0, 0, 0, 0>>,          \* 3037000499
            <<52, 243, 4, 181, 0, 0, 0, 0>>,          \* 3037000500
            <<0, 0, 0, 0, 1, 0, 0, 0>>,               \* 2^32
            <<57, 48, 0, 0, 0, 0, 0, 64>>,            \* 2^62 + 12345
            <<255, 255, 255, 255, 255, 255, 255, 127>>,   \* 2^63 - 1
            <<0, 0, 0, 0, 0, 0, 0, 128>>}             \* -2^63

InitTerm ==
    /\ names = AllDefined
    /\ store = [a \in Addr |-> Free]
    /\ call = NoCall
    /\ pending = NoPending
    /\ ran = {}
    /\ x64 \in Int64Inputs
    /\ step = 0
    /\ term = <<>>

\* one iteration of for t in range(15), as far as the integer term
TermStep ==
    /\ step < Steps
    /\ term' = Term64(step, x64)
    /\ step' = step + 1
    /\ UNCHANGED <<names, store, call, pending, ran, x64>>

NextTerm == TermStep

SpecTerm == InitTerm /\ [][NextTerm]_vars

---------------------------------------------------------------------------
(* Properties of the functions (SpecCall) *)

ArgAddr == {"x", "y", "z", "res"}
N == store["x"].shape[1]
EqualLengths == store["y"].shape[1] = N /\ store["z"].shape[1] = N
Returned == store["ret"]

\* adj * (t * x^2 + y - 2*z - 2*t) in units of 1/FloatOne, by plain arithmetic
Formula(overlay, t, xv, yv, zv) ==
    LET v == FloatOne * (t * xv * xv - 2 * t) + yv - 2 * zv
    IN  IF overlay THEN (3 * v) \div 2 ELSE v

\* the last call was of the function fn itself, not of a Delayed around it
Called(fn) == call.expr = fn /\ call.callee.kind = "function"

\* C1: a call of predict_over_time or jitted_func on x, y, z of equal length N
\* returns the matrix whose entry (i, t) is adj * (t*x[i]^2 + y[i] - 2*z[i] - 2*t)
\* for every row i and every step t in 0..14, adj being 1.5 under overlay and
\* 1.0 otherwise; x = [2], y = [1.0], z = [0.5] without overlay gives 2*t.
C1_Formula ==
    ((Called("predict_over_time") \/ Called("jitted_func")) /\ EqualLengths) =>
        /\ call.status = "ok"
        /\ \A i \in 1..N : \A t \in 0..(Steps - 1) :
              Returned.data[i][t + 1] =
                 Formula(call.overlay, t, store["x"].data[i], store["y"].data[i],
                         store["z"].data[i])
        /\ (/\ store["x"].data = <<2>>
            /\ store["y"].data = <<FloatOne>>
            /\ store["z"].data = <<FloatOne \div 2>>
            /\ ~call.overlay)
           => Returned.data[1] = [c \in 1..Steps |-> FromInt(2 * (c - 1))]

C1_Witness ==
    /\ Called("jitted_func") /\ call.status = "ok" /\ call.overlay
    /\ N = MaxN /\ EqualLengths
    /\ store["x"].data[1] /= store["x"].data[2]
    /\ store["y"].data[1] /= store["y"].data[2]

\* C2: for every N >= 0 the result of predict_over_time on x, y, z of common
\* length N has exactly N rows and exactly 15 columns, whatever overlay is.
C2_Shape ==
    (Called("predict_over_time") /\ EqualLengths) =>
        /\ call.status = "ok"
        /\ Returned.shape = <<N, 15>>
        /\ Len(Returned.data) = N
        /\ \A i \in 1..N : Len(Returned.data[i]) = 15

C2_Witness ==
    /\ Called("predict_over_time") /\ call.status = "ok" /\ call.overlay
    /\ N = 0 /\ EqualLengths

\* C3: in the direct and in the vectorized variant, every element of the
\* overlay=true result is 1.5 times the element at the same place of the
\* overlay=false result for the same x, y, z.
C3_Overlay ==
    ((Called("predict_over_time") \/ Called("fast_predict_over_time"))
       /\ call.status = "ok" /\ call.overlay) =>
        LET base == Run(call.callee.fn, store, FALSE)
            plain == base.store["ret"]
        IN  /\ base.status = "ok"
            /\ plain.shape = Returned.shape
            /\ \A i \in 1..Returned.shape[1] : \A c \in 1..Returned.shape[2] :
                  2 * Returned.data[i][c] = 3 * plain.data[i][c]

C3_Witness ==
    /\ Called("fast_predict_over_time") /\ call.status = "ok" /\ call.overlay
    /\ N = MaxN /\ Returned.shape = <<MaxN, Steps>>
    /\ \E c \in 1..Steps : Returned.data[1][c] /= 0

\* C8: a call of predict_over_time on arrays of any lengths either returns a
\* matrix with len(x) rows in which all 15 columns of every row hold the
\* formula's value (y and z broadcast when they have one element), or raises
\* the runtime's ValueError and returns nothing.
C8_AllOrNothing ==
    Called("predict_over_time") =>
        \/ /\ call.status = "ok"
           /\ Returned.shape = <<N, Steps>>
           /\ store["y"].shape[1] \in {N, 1} /\ store["z"].shape[1] \in {N, 1}
           /\ \A i \in 1..N : \A t \in 0..(Steps - 1) :
                 Returned.data[i][t + 1] =
                    Formula(call.overlay, t, store["x"].data[i], At(store["y"], i),
                            At(store["z"], i))
        \/ /\ call.status = "ValueError"
           /\ call.ret = None
           /\ Returned = Free

C8_Witness ==
    /\ Called("predict_over_time") /\ call.status = "ValueError"
    /\ ~EqualLengths /\ N = 1 /\ store["y"].shape[1] = MaxN

\* C9 as stated: the vectorized variant returns 15 columns whatever the shape
\* of the placeholder is.
C9_FixedSteps ==
    (Called("fast_predict_over_time") /\ call.status = "ok") =>
        Returned.shape[2] = Steps

\* C9 amended: the vectorized variant evaluates the steps 0..s-1, s being the
\* last dimension of the placeholder: its result has s columns, which is 15
\* when the placeholder's last dimension is 15.
C9_PlaceholderSteps ==
    (Called("fast_predict_over_time") /\ call.status = "ok") =>
        /\ Returned.shape[2] = store["res"].shape[Len(store["res"].shape)]
        /\ \A i \in 1..Returned.shape[1] :
              /\ Len(Returned.data[i]) = Returned.shape[2]
              /\ \A c \in 1..Returned.shape[2] :
                    Returned.data[i][c] =
                       Formula(call.overlay, c - 1, At(store["x"], i), At(store["y"], i),
                               At(store["z"], i))

C9_Witness ==
    /\ Called("fast_predict_over_time") /\ call.status = "ok"
    /\ store["res"].shape = <<MaxN, AltCols>> /\ N = MaxN
    /\ Returned.shape = <<MaxN, AltCols>>

\* C6: a call leaves every array passed to it unchanged (x, y, z and the
\* placeholder res), and the matrix it returns is a newly created array, at
\* an address that held nothing before and is none of the arguments'.
C6_Frame ==
    [][/\ \A a \in ArgAddr : store'[a] = store[a]
       /\ call'.status = "ok" =>
             /\ call'.ret \notin ArgAddr
             /\ store[call'.ret] = Free]_vars

C6_Witness ==
    /\ call.expr = "fast_predict_over_time" /\ call.callee.kind = "delayed"
    /\ call.status = "ok"
    /\ N > 0 /\ Returned.shape = <<N, Steps>>

---------------------------------------------------------------------------
(* Properties of the execution variants and of the session *)

\* the matrix of the formula for the arrays bound to x, y, z
ExpectedData(overlay) ==
    [i \in 1..N |-> [c \in 1..Steps |->
        Formula(overlay, c - 1, store["x"].data[i], store["y"].data[i],
                store["z"].data[i])]]

\* C4: invoked as the notebook invokes them (x, y, z of one length N, the
\* placeholder of shape (N, 15)), predict_over_time, jitted_func,
\* fast_predict_over_time and the delayed wrappers after .compute() all return
\* the matrix predict_over_time returns, element for element.
C4_Variants ==
    (/\ EqualLengths /\ store["res"].shape = <<N, Steps>>
     /\ call.status \notin {"none", "Delayed"}) =>
        /\ call.status = "ok"
        /\ Returned = predict_over_time(store, "x", "y", "z", call.overlay).store["ret"]

C4_Witness ==
    /\ call.expr = "fast_predict_over_time" /\ call.callee.kind = "delayed"
    /\ call.status = "ok" /\ call.overlay
    /\ EqualLengths /\ N = MaxN /\ store["res"].shape = <<N, Steps>>
    /\ Returned.data[1] /= Returned.data[2]

\* C5: the call of a delayed wrapper only builds the Delayed object: no kernel
\* runs in that step nor before the trigger, and nothing is returned; the
\* trigger is the next step, it runs the wrapped kernel once, to completion,
\* and returns the whole (N, 15) matrix, equal to predict_over_time's.
C5_Deferred ==
    [][/\ pending'.fn /= None =>
             /\ pending.fn = None
             /\ ran' = {}
             /\ call'.status = "Delayed" /\ call'.ret = None
             /\ store'["ret"] = Free
       /\ call'.status = "Delayed" => ran' = {}
       /\ pending.fn /= None =>
             /\ pending'.fn = None
             /\ ran' = {pending.fn}
             /\ call'.status = "ok"
             /\ store'["ret"].shape = <<names.n, 15>>
             /\ store'["ret"] =
                  predict_over_time(store, "x", "y", "z", pending.overlay).store["ret"]]_vars

C5_Witness ==
    /\ call.cell = 10 /\ call.callee.kind = "delayed" /\ call.status = "ok"
    /\ pending.fn = None /\ ran = {"fast_predict_over_time"}
    /\ names.n = MaxN /\ Returned.shape = <<MaxN, Steps>>

\* C7 as stated: fast_predict_over_time(x, y, z, False, res) yields the result
\* matrix whatever cells ran before it, the cell applying delayed included.
C7_SameName ==
    (call.cell = 8 /\ call.status /= "NameError") =>
        /\ call.status = "ok"
        /\ Returned.data = ExpectedData(FALSE)

\* C7 amended: what a call yields is decided by the object its name is bound
\* to and by its arguments.  Every call that returns a matrix returns the
\* formula's matrix for the arrays passed; fast_predict_over_time(x, y, z,
\* False, res) returns it while the name is bound to the vectorized function,
\* and returns a Delayed object, no matrix, once the cell applying delayed has
\* rebound the name; that cell's own call is of the Delayed wrapper, whose
\* .compute() returns the same matrix.
C7_SameObject ==
    /\ call.status = "ok" => Returned.data = ExpectedData(call.overlay)
    /\ (call.cell = 8 /\ call.status /= "NameError") =>
          \/ /\ call.callee.kind = "function"
             /\ call.status = "ok"
          \/ /\ call.callee.kind = "delayed"
             /\ call.status = "Delayed" /\ call.ret = None /\ Returned = Free
    /\ (call.cell = 10 /\ call.status /= "NameError") =>
          /\ call.callee.kind = "delayed"
          /\ names.fast_predict_over_time.kind = "delayed" \/ call.status = "ok"
          /\ pending.fn /= None \/ call.status = "ok"

C7_Witness ==
    /\ call.cell = 8 /\ call.callee.kind = "delayed" /\ call.status = "Delayed"
    /\ names.n = MaxN /\ store["res"] /= Free

---------------------------------------------------------------------------
(* Properties of the integer term (SpecTerm) *)

WideBytes == 2 * Int64Bytes + 1
Wide(a) == a \o [i \in 1..(WideBytes - Len(a)) |-> 0]
Negative(a) == a[Int64Bytes] >= Byte \div 2
\* |a| for an int64 a, as an unsigned number
Magnitude(a) ==
    IF Negative(a) THEN Propagate([i \in 1..Int64Bytes |-> (Byte - 1) - a[i]], 1, 1)
    ELSE a
\* the integers x^2, t * x^2 and 14 * x^2, exactly
ExactSquare == MulLimbs(Wide(Magnitude(x64)), Wide(Magnitude(x64)))
ExactTerm(t) == MulLimbs(Wide(Digits(t, Int64Bytes)), ExactSquare)
\* a < 2^63
InRange(a) == ~Negative(a) /\ \A i \in (Int64Bytes + 1)..Len(a) : a[i] = 0

\* C10: the term t * x[i]^2 is computed in 64-bit integers.  It is always an
\* int64 value, the exact product reduced modulo 2^64, and no step fails;
\* when 14 * x[i]^2 < 2^63 it is the exact product for every t, and neither it
\* nor x[i]^2 overflows.  On the session's values of x it is the integer
\* IntTerm computes.
C10_Int64Term ==
    step > 0 =>
        /\ Len(term) = Int64Bytes
        /\ \A i \in 1..Int64Bytes : term[i] \in 0..(Byte - 1)
        /\ term = SubSeq(ExactTerm(step - 1), 1, Int64Bytes)
        /\ InRange(ExactTerm(Steps - 1)) =>
              /\ Wide(term) = ExactTerm(step - 1)
              /\ ~Negative(term)
              /\ Wide(Mul64(x64, x64)) = ExactSquare
        /\ \A v \in XVals :
              Term64(step - 1, Int64FromInt(v)) = Int64FromInt(IntTerm(step - 1, v))

C10_Witness ==
    /\ step = Steps
    /\ x64 = Int64FromInt(811672526)
    /\ ~InRange(ExactTerm(Steps - 1))
    /\ Negative(term)

=============================================================================
